---------------------------- MODULE Spec2Model ----------------------------
(***************************************************************************)
(* Model of src/main.py: an HC-SR04 ultrasonic range finder polled ten     *)
(* times a second, a 30-slot history smoothed by a Butterworth low-pass    *)
(* filter, and a presence detector that starts and stops music playback.   *)
(*                                                                         *)
(* Units.  Wall-clock time and pulse durations are integers in             *)
(* milliseconds.  Distances are integers in hundredths of a centimetre,    *)
(* so 100 cm is 10000.  Python's None is the empty sequence and a present  *)
(* value x is <<x>>.                                                       *)
(***************************************************************************)
EXTENDS Integers, Sequences, FiniteSets

\* ------------------------------------------------------------------ units
MsPerSec == 1000
UnitsPerCm == 100

None == << >>
Some(x) == <<x>>
Val(o) == o[1]

\* ----------------------------------------------------------------- bounds
\* Number of loop iterations explored.
MaxTicks == 10
\* Extra delay (ms) of an iteration that overruns its 100 ms cadence.
Overrun == 500
\* Loop iterations explored when the filter computation may fail.
FaultTicks == 6
\* Loop iterations explored to fill the history with readings (more than
\* its 30 slots), and how many of them receive an echo.
WindowTicks == 32
MaxEchoes == 2
\* Longest time (ms) that passes between two successive time.time() calls of
\* the pulse measurement.
LongStep == 16
\* Latest time (ms) on the clock of one pulse measurement; the measurement
\* itself ends well before it.
MaxClock == 250

\* -------------------------------------------------------- program constants
\* HCSR04.__init__: timeout_sec=0.03
TIMEOUT_MS == 30
\* distance_cm: speed of sound, cm/s
SPEED_OF_SOUND == 34300
\* distance_cm: lower and upper end of the sensor range, cm
MIN_RANGE_CM == 2
MAX_RANGE_CM == 400
\* deque([200.0] * 30, maxlen=30)
HISTORY_LEN == 30
HISTORY_FILL_CM == 200
\* low_pass_filter: len(data_array) < 15
MIN_FILTER_LEN == 15
\* main loop: filtered_distance < 100
THRESHOLD_CM == 100
\* main loop: time.time() - detection_start > 0.5
SUSTAIN_MS == 500
\* main loop: time.sleep(0.1)
SLEEP_MS == 100

\* ------------------------------------------------------------ distance_cm
\* distance_cm without the lower clamp of lines 97-98.
distance_cm_no_lower_clamp(pulse_duration) ==
    IF pulse_duration = None
    THEN MAX_RANGE_CM * UnitsPerCm
    ELSE LET distance == (Val(pulse_duration) * SPEED_OF_SOUND * UnitsPerCm)
                              \div (2 * MsPerSec)
         IN  IF distance > MAX_RANGE_CM * UnitsPerCm
             THEN MAX_RANGE_CM * UnitsPerCm
             ELSE distance

\* distance_cm taking a timeout for a pulse of no duration.
distance_cm_timeout_as_zero(pulse_duration) ==
    LET distance == IF pulse_duration = None THEN 0
                    ELSE (Val(pulse_duration) * SPEED_OF_SOUND * UnitsPerCm)
                              \div (2 * MsPerSec)
    IN  IF distance < MIN_RANGE_CM * UnitsPerCm
        THEN MIN_RANGE_CM * UnitsPerCm
        ELSE IF distance > MAX_RANGE_CM * UnitsPerCm
             THEN MAX_RANGE_CM * UnitsPerCm
             ELSE distance

\* HCSR04.distance_cm applied to the outcome of _send_pulse_and_wait:
\* None (timeout) or Some(duration in ms).
distance_cm(pulse_duration) ==
    IF pulse_duration = None
    THEN MAX_RANGE_CM * UnitsPerCm
    ELSE LET distance == (Val(pulse_duration) * SPEED_OF_SOUND * UnitsPerCm)
                              \div (2 * MsPerSec)
         IN  IF distance < MIN_RANGE_CM * UnitsPerCm
             THEN MIN_RANGE_CM * UnitsPerCm
             ELSE IF distance > MAX_RANGE_CM * UnitsPerCm
                  THEN MAX_RANGE_CM * UnitsPerCm
                  ELSE distance

\* get_distance(): the module-level wrapper around sensor.distance_cm()
get_distance(pulse_duration) == distance_cm(pulse_duration)


\* ------------------------------------------------------------ low_pass_filter
\* data[1] + ... + data[n], and w[1] * data[1] + ... + w[n] * data[n].
RECURSIVE SumUpTo(_, _)
SumUpTo(data, n) == IF n = 0 THEN 0 ELSE data[n] + SumUpTo(data, n - 1)

RECURSIVE DotUpTo(_, _, _)
DotUpTo(w, data, n) ==
    IF n = 0 THEN 0 ELSE w[n] * data[n] + DotUpTo(w, data, n - 1)

\* np.mean(data_array), rounded down to the distance unit.
mean(data) == SumUpTo(data, Len(data)) \div Len(data)

\* filtfilt(b, a, x)[-1] is linear in x.  For butter(2, 1.0 / (0.5 * 10.0)),
\* the default odd padding of 9 samples and a 30-sample x, these are the
\* coefficients of x[0..29] in the last output sample, in units of 1/10000
\* (they sum to 10000: a constant input is returned unchanged).
FILTFILT_WEIGHT_SCALE == 10000
FILTFILT_LAST_WEIGHTS ==
    << 0, 0, 0, 0, 0, 0, 0, 0, 0, 0,
       0, 0, 1, 2, 4, 6, 5, 1, -9, -29,
       -37, -12, 13, 20, 18, 12, 7, 3, 1, 9994 >>

filtfilt_last(data) ==
    DotUpTo(FILTFILT_LAST_WEIGHTS, data, Len(data)) \div FILTFILT_WEIGHT_SCALE

\* The ways the filter computation can end: normally, with the ValueError
\* that low_pass_filter catches itself, or with any other exception, which
\* only the main loop catches.
FilterFaults == {"none", "ValueError", "Exception"}

\* low_pass_filter(history)[-1]; the result is None when an exception other
\* than ValueError leaves the function.
low_pass_filter(data, fault) ==
    IF Len(data) < MIN_FILTER_LEN
    THEN Some(mean(data))
    ELSE IF fault = "Exception" THEN None
    ELSE IF fault = "ValueError" THEN Some(mean(data))
    ELSE Some(filtfilt_last(data))

\* Main loop, lines 186-190: the filtered distance of one iteration.
filter_step(data, raw, fault) ==
    LET out == low_pass_filter(data, fault)
    IN  IF out = None THEN raw ELSE Val(out)

\* A bounded buffer that gives up its newest entry, not its oldest.
deque_append_evict_newest(dq, x) ==
    IF Len(dq) >= HISTORY_LEN
    THEN Append(SubSeq(dq, 1, Len(dq) - 1), x)
    ELSE Append(dq, x)

\* deque.append on a deque with maxlen: the oldest entry is dropped when full.
deque_append(dq, x) ==
    IF Len(dq) >= HISTORY_LEN THEN Append(Tail(dq), x) ELSE Append(dq, x)

\* ------------------------------------------------------------ playback
\* What the music directory and the mixer do when a song is started.
SongOutcomes == {"ok", "no_songs", "listdir_error", "load_error"}

\* play_random_song() without the test of audio_available.
play_random_song_unguarded(avail, busy, song) ==
    IF busy THEN [raised |-> FALSE, busy |-> busy, ops |-> 0]
    ELSE IF song = "listdir_error" THEN [raised |-> TRUE, busy |-> busy, ops |-> 0]
    ELSE IF song = "no_songs" THEN [raised |-> FALSE, busy |-> busy, ops |-> 0]
    ELSE IF song = "load_error" THEN [raised |-> TRUE, busy |-> busy, ops |-> 1]
    ELSE [raised |-> FALSE, busy |-> TRUE, ops |-> 2]

\* play_random_song(): raised is TRUE when an exception leaves the function,
\* busy is pygame.mixer.music.get_busy() afterwards, ops counts the
\* pygame.mixer.music load/play calls made.
play_random_song(avail, busy, song) ==
    IF ~avail THEN [raised |-> FALSE, busy |-> busy, ops |-> 0]
    ELSE IF busy THEN [raised |-> FALSE, busy |-> busy, ops |-> 0]
    ELSE IF song = "listdir_error" THEN [raised |-> TRUE, busy |-> busy, ops |-> 0]
    ELSE IF song = "no_songs" THEN [raised |-> FALSE, busy |-> busy, ops |-> 0]
    ELSE IF song = "load_error" THEN [raised |-> TRUE, busy |-> busy, ops |-> 1]
    ELSE [raised |-> FALSE, busy |-> TRUE, ops |-> 2]

\* stop_music()
stop_music(avail, busy) ==
    IF ~avail THEN [busy |-> busy, ops |-> 0]
    ELSE [busy |-> FALSE, ops |-> 1]


\* ------------------------------------------------------------ presence detection
\* The detector's result record.
Outcome(detected, start, rearm, play, stop) ==
    [person_detected |-> detected, detection_start |-> start,
     need_rearm |-> rearm, play |-> play, stop |-> stop]

\* presence_step that marks the person as detected without recording when.
presence_step_no_start(filtered, t, detected, start, rearm) ==
    IF filtered < THRESHOLD_CM * UnitsPerCm
    THEN IF ~detected THEN Outcome(TRUE, start, rearm, FALSE, FALSE)
         ELSE IF t - Val(start) > SUSTAIN_MS /\ ~rearm
              THEN Outcome(detected, start, TRUE, TRUE, FALSE)
              ELSE Outcome(detected, start, rearm, FALSE, FALSE)
    ELSE Outcome(FALSE, start, FALSE, FALSE, TRUE)

\* presence_step that resets need_rearm only when no song was started.
presence_step_rearm_stuck(filtered, t, detected, start, rearm) ==
    IF filtered < THRESHOLD_CM * UnitsPerCm
    THEN IF ~detected THEN Outcome(TRUE, Some(t), rearm, FALSE, FALSE)
         ELSE IF t - Val(start) > SUSTAIN_MS /\ ~rearm
              THEN Outcome(detected, start, TRUE, TRUE, FALSE)
              ELSE Outcome(detected, start, rearm, FALSE, FALSE)
    ELSE Outcome(FALSE, start, rearm, FALSE, TRUE)

\* presence_step comparing the elapsed time with >= instead of >.
presence_step_ge(filtered, t, detected, start, rearm) ==
    IF filtered < THRESHOLD_CM * UnitsPerCm
    THEN IF ~detected THEN Outcome(TRUE, Some(t), rearm, FALSE, FALSE)
         ELSE IF t - Val(start) >= SUSTAIN_MS /\ ~rearm
              THEN Outcome(detected, start, TRUE, TRUE, FALSE)
              ELSE Outcome(detected, start, rearm, FALSE, FALSE)
    ELSE Outcome(FALSE, start, FALSE, FALSE, TRUE)

\* presence_step that does not set need_rearm after starting a song.
presence_step_no_rearm(filtered, t, detected, start, rearm) ==
    IF filtered < THRESHOLD_CM * UnitsPerCm
    THEN IF ~detected THEN Outcome(TRUE, Some(t), rearm, FALSE, FALSE)
         ELSE IF t - Val(start) > SUSTAIN_MS /\ ~rearm
              THEN Outcome(detected, start, rearm, TRUE, FALSE)
              ELSE Outcome(detected, start, rearm, FALSE, FALSE)
    ELSE Outcome(FALSE, start, FALSE, FALSE, TRUE)

\* presence_step that stops the music only on the first iteration without
\* a person (it skips stop_music() when need_rearm is set).
presence_step_no_stop(filtered, t, detected, start, rearm) ==
    IF filtered < THRESHOLD_CM * UnitsPerCm
    THEN IF ~detected THEN Outcome(TRUE, Some(t), rearm, FALSE, FALSE)
         ELSE IF t - Val(start) > SUSTAIN_MS /\ ~rearm
              THEN Outcome(detected, start, TRUE, TRUE, FALSE)
              ELSE Outcome(detected, start, rearm, FALSE, FALSE)
    ELSE Outcome(FALSE, start, FALSE, FALSE, ~rearm)

\* presence_step that does not reset need_rearm when the person has left.
presence_step_keep_rearm(filtered, t, detected, start, rearm) ==
    IF filtered < THRESHOLD_CM * UnitsPerCm
    THEN IF ~detected THEN Outcome(TRUE, Some(t), rearm, FALSE, FALSE)
         ELSE IF t - Val(start) > SUSTAIN_MS /\ ~rearm
              THEN Outcome(detected, start, TRUE, TRUE, FALSE)
              ELSE Outcome(detected, start, rearm, FALSE, FALSE)
    ELSE Outcome(FALSE, start, rearm, FALSE, TRUE)

\* presence_step that restarts the timer on every iteration in which the
\* 0.5 s have not yet passed.
presence_step_restart(filtered, t, detected, start, rearm) ==
    IF filtered < THRESHOLD_CM * UnitsPerCm
    THEN IF ~detected THEN Outcome(TRUE, Some(t), rearm, FALSE, FALSE)
         ELSE IF t - Val(start) > SUSTAIN_MS
              THEN IF ~rearm
                   THEN Outcome(detected, start, TRUE, TRUE, FALSE)
                   ELSE Outcome(detected, start, rearm, FALSE, FALSE)
              ELSE Outcome(detected, Some(t), rearm, FALSE, FALSE)
    ELSE Outcome(FALSE, start, FALSE, FALSE, TRUE)

\* Main loop, lines 197-210: one evaluation of the presence detector on the
\* filtered distance and the time t read by time.time().  play and stop say
\* whether play_random_song() / stop_music() is called.
presence_step(filtered, t, detected, start, rearm) ==
    IF filtered < THRESHOLD_CM * UnitsPerCm
    THEN IF ~detected
         THEN Outcome(TRUE, Some(t), rearm, FALSE, FALSE)
         ELSE IF t - Val(start) > SUSTAIN_MS
              THEN IF ~rearm
                   THEN Outcome(detected, start, TRUE, TRUE, FALSE)
                   ELSE Outcome(detected, start, rearm, FALSE, FALSE)
              ELSE Outcome(detected, start, rearm, FALSE, FALSE)
    ELSE Outcome(FALSE, start, FALSE, FALSE, TRUE)

\* ------------------------------------------------------------ state
VARIABLES
    now,                \* wall clock (ms) at the last time.time() of the loop
    history,            \* the deque of raw distances
    person_detected,
    detection_start,    \* None or Some(time)
    need_rearm,
    raw_distance,       \* of the last iteration
    filtered_distance,  \* of the last iteration
    audio_available,    \* whether pygame.mixer.init() succeeded
    music_busy,         \* pygame.mixer.music.get_busy()
    pc,                 \* "loop", "exited" (KeyboardInterrupt handler ran),
                        \* "crashed" (an exception left the try statement)
    gpio_cleaned,       \* GPIO.cleanup() has run
    mixer_quit,         \* pygame.mixer.quit() has run
    ticks,              \* loop iterations started
    play_calls,         \* play_random_song() calls of the last iteration
    stop_calls,         \* stop_music() calls of the last iteration
    mixer_ops,          \* pygame.mixer.music load/play/stop calls of the last iteration
    run_start,          \* time of the first iteration of the current unbroken run
                        \* of iterations with filtered_distance < 100, or None
    plays_in_run,       \* play_random_song() calls during that run
    played_before,      \* a run that has ended held a play_random_song() call
    prev_state,         \* DetectionState before the last iteration
    filter_fault,       \* how the filter computation of the last iteration ended
    pushed,             \* every raw distance appended to history, in order
    echoes,             \* iterations whose pulse measurement returned a duration
    \* one call of sensor.distance_cm(), statement by statement
    sensor_pc,          \* "idle", "wait_high" (line 66), "wait_low" (line 73),
                        \* "returned" (from _send_pulse_and_wait), "done"
    clock,              \* wall clock (ms) since the call began
    pulse_start,
    pulse_end,
    timeout_start,
    pulse_duration,     \* result of _send_pulse_and_wait: None or Some(ms)
    timeout_edge,       \* the wait that timed out: "none", "rising", "falling"
    long_wait,          \* a wait for an edge has lasted longer than timeout_sec
    late_poll,          \* a loop body has read an elapsed time above timeout_sec
    distance            \* result of distance_cm: None until it has returned

loop_vars == << now, history, person_detected, detection_start, need_rearm,
                raw_distance, filtered_distance, audio_available, music_busy,
                pc, gpio_cleaned, mixer_quit, ticks, play_calls, stop_calls,
                mixer_ops, run_start, plays_in_run, played_before, prev_state,
                filter_fault, pushed, echoes >>

sensor_vars == << sensor_pc, clock, pulse_start, pulse_end, timeout_start,
                  pulse_duration, timeout_edge, long_wait, late_poll,
                  distance >>

vars == << loop_vars, sensor_vars >>

\* The state of the table in the specification's presence detector:
\* Idle (nobody detected), Pending (detected, no song started yet),
\* Present (detected and play_random_song() has been called).
DetectionState(detected, rearm) ==
    IF ~detected THEN "Idle" ELSE IF rearm THEN "Present" ELSE "Pending"

\* Outcomes of _send_pulse_and_wait offered to the main loop: a timeout, or
\* an echo pulse of the given duration in ms (3 ms is 51.45 cm).
PulseOutcomes == {None, Some(3)}

\* Time from one iteration's time.time() to the next one's: the 100 ms sleep,
\* or the sleep and an overrun.
TickGaps == {SLEEP_MS, SLEEP_MS + Overrun}

InitLoop ==
    /\ now = 0
    /\ history = [i \in 1..HISTORY_LEN |-> HISTORY_FILL_CM * UnitsPerCm]
    /\ person_detected = FALSE
    /\ detection_start = None
    /\ need_rearm = FALSE
    /\ raw_distance = HISTORY_FILL_CM * UnitsPerCm
    /\ filtered_distance = HISTORY_FILL_CM * UnitsPerCm
    /\ audio_available \in BOOLEAN
    /\ music_busy = FALSE
    /\ pc = "loop"
    /\ gpio_cleaned = FALSE
    /\ mixer_quit = FALSE
    /\ ticks = 0
    /\ play_calls = 0
    /\ stop_calls = 0
    /\ mixer_ops = 0
    /\ run_start = None
    /\ plays_in_run = 0
    /\ played_before = FALSE
    /\ prev_state = "Idle"
    /\ filter_fault = "none"
    /\ pushed = << >>
    /\ echoes = 0

InitSensor ==
    /\ sensor_pc = "idle"
    /\ clock = 0
    /\ pulse_start = 0
    /\ pulse_end = 0
    /\ timeout_start = 0
    /\ pulse_duration = None
    /\ timeout_edge = "none"
    /\ long_wait = FALSE
    /\ late_poll = FALSE
    /\ distance = None

Init == InitLoop /\ InitSensor

\* One iteration of the while loop, lines 181-212.  The inputs are the
\* outcome of the pulse measurement, the time that has passed since the last
\* iteration, how the filter computation ends (one of faults) and, when a
\* song is started, what the music directory and the mixer do.  The run
\* explored is at most maxTicks iterations long, at most maxEchoes of them
\* with an echo.
loop_iteration(faults, gaps, maxTicks, maxEchoes) ==
    /\ pc = "loop"
    /\ ticks < maxTicks
    /\ \E pulse \in {q \in PulseOutcomes : q = None \/ echoes < maxEchoes},
          gap \in gaps, fault \in faults :
       \E raw \in {get_distance(pulse)} :
       \E hist \in {deque_append(history, raw)} :
       \E filtered \in {filter_step(hist, raw, fault)} :
       \E d \in {presence_step(filtered, now + gap, person_detected,
                               detection_start, need_rearm)} :
       \E song \in (IF d.play THEN SongOutcomes ELSE {"ok"}) :
       \E played \in {play_random_song(audio_available, music_busy, song)} :
       \E stopped \in {stop_music(audio_available, music_busy)} :
       \E below \in {filtered < THRESHOLD_CM * UnitsPerCm} :
            /\ now' = now + gap
            /\ ticks' = ticks + 1
            /\ raw_distance' = raw
            /\ history' = hist
            /\ filtered_distance' = filtered
            /\ person_detected' = d.person_detected
            /\ detection_start' = d.detection_start
            /\ play_calls' = IF d.play THEN 1 ELSE 0
            /\ stop_calls' = IF d.stop THEN 1 ELSE 0
            /\ IF d.play /\ played.raised
               THEN \* the exception leaves the loop before line 204
                    /\ need_rearm' = need_rearm
                    /\ pc' = "crashed"
               ELSE /\ need_rearm' = d.need_rearm
                    /\ pc' = "loop"
            /\ music_busy' = IF d.play THEN played.busy
                             ELSE IF d.stop THEN stopped.busy
                             ELSE music_busy
            /\ mixer_ops' = IF d.play THEN played.ops
                            ELSE IF d.stop THEN stopped.ops
                            ELSE 0
            /\ run_start' = IF below
                            THEN (IF run_start = None THEN Some(now + gap)
                                  ELSE run_start)
                            ELSE None
            /\ plays_in_run' = IF below
                               THEN plays_in_run + (IF d.play THEN 1 ELSE 0)
                               ELSE 0
            /\ played_before' = (played_before \/ (~below /\ plays_in_run > 0))
            /\ prev_state' = DetectionState(person_detected, need_rearm)
            /\ filter_fault' = fault
            /\ pushed' = Append(pushed, raw)
            /\ echoes' = echoes + (IF pulse # None THEN 1 ELSE 0)
            /\ UNCHANGED << audio_available, gpio_cleaned, mixer_quit >>
            /\ UNCHANGED sensor_vars

\* An iteration whose filter computation ends normally.  filtfilt raises
\* ValueError only for an input no longer than its padding (9 samples), and
\* the history always holds 30 finite numbers.
Tick == loop_iteration({"none"}, TickGaps, MaxTicks, MaxTicks)

\* An iteration in which the filter computation may fail.
TickFilterFault == loop_iteration(FilterFaults, TickGaps, FaultTicks, FaultTicks)

\* An iteration of a long run at the regular cadence, in which few
\* measurements receive an echo.
TickWindow == loop_iteration({"none"}, {SLEEP_MS}, WindowTicks, MaxEchoes)

\* The song that is playing comes to its end.
TrackEnds ==
    /\ pc = "loop"
    /\ music_busy
    /\ music_busy' = FALSE
    /\ UNCHANGED << now, history, person_detected, detection_start, need_rearm,
                    raw_distance, filtered_distance, audio_available, pc,
                    gpio_cleaned, mixer_quit, ticks, play_calls, stop_calls,
                    mixer_ops, run_start, plays_in_run, played_before,
                    prev_state, filter_fault, pushed, echoes >>
    /\ UNCHANGED sensor_vars

\* Ctrl-C while the loop runs: the except KeyboardInterrupt clause, lines
\* 214-217.  The interrupt is taken between two iterations (the loop spends
\* its time in the sleep of line 212); no iteration follows it.
KeyboardInterrupt ==
    /\ pc = "loop"
    /\ pc' = "exited"
    /\ gpio_cleaned' = TRUE
    /\ mixer_quit' = TRUE
    /\ music_busy' = FALSE
    /\ UNCHANGED << now, history, person_detected, detection_start, need_rearm,
                    raw_distance, filtered_distance, audio_available,
                    ticks, play_calls, stop_calls, mixer_ops,
                    run_start, plays_in_run, played_before, prev_state,
                    filter_fault, pushed, echoes >>
    /\ UNCHANGED sensor_vars

Next == Tick \/ TrackEnds \/ KeyboardInterrupt

Spec == Init /\ [][Next]_vars

\* The main loop with a filter computation that may fail.
NextFilterFault == TickFilterFault \/ TrackEnds \/ KeyboardInterrupt

SpecFilterFault == Init /\ [][NextFilterFault]_vars

\* The main loop, uninterrupted, run long enough to replace the whole
\* history.
NextWindow == TickWindow

SpecWindow == Init /\ [][NextWindow]_vars


\* ------------------------------------------------------------ pulse measurement
\* Time that passes up to a time.time() call since the one before it.
ClockSteps == {0, 1, LongStep}

\* Level of the echo pin at a GPIO.input call: the line may do anything.
EchoLevels == {0, 1}

\* The timeout test with timeout_sec taken for a number of milliseconds
\* and the clock for one in microseconds.
timed_out_wrong_unit(t, start) == t - start > TIMEOUT_MS * MsPerSec

\* The timeout test with the operands of the subtraction exchanged.
timed_out_swapped(t, start) == start - t > TIMEOUT_MS

\* Lines 68 and 75: the timeout test on the time t just read.
timed_out(t, start) == t - start > TIMEOUT_MS

\* _send_pulse_and_wait, lines 57-65: the trigger pulse and the three
\* time.time() calls before the first loop.
\* steps: the times that may pass between two time.time() calls.
send_pulse(steps) ==
    /\ sensor_pc = "idle"
    /\ \E s1 \in steps, s2 \in steps, s3 \in steps :
        /\ pulse_start' = clock + s1
        /\ pulse_end' = clock + s1 + s2
        /\ timeout_start' = clock + s1 + s2 + s3
        /\ clock' = clock + s1 + s2 + s3
    /\ clock' <= MaxClock
    /\ sensor_pc' = "wait_high"
    /\ UNCHANGED << pulse_duration, timeout_edge, long_wait, late_poll,
                    distance >>
    /\ UNCHANGED loop_vars

\* Lines 66-72: one test of the first while condition and, when the echo is
\* still low, one pass through the loop body; when it is high, line 72.
\* The pin is read s0 after the last time.time() call; the wait for the
\* edge has then lasted (clock + s0) - timeout_start.
poll_high(steps) ==
    /\ sensor_pc = "wait_high"
    /\ \E level \in EchoLevels, s1 \in steps, s2 \in steps :
        IF level = 0
        THEN /\ pulse_start' = clock + s1
             /\ clock' = clock + s1 + s2
             /\ IF timed_out(clock + s1 + s2, timeout_start)
                THEN /\ sensor_pc' = "returned"
                     /\ timeout_edge' = "rising"
                ELSE /\ sensor_pc' = "wait_high"
                     /\ timeout_edge' = timeout_edge
             /\ late_poll' = (late_poll
                                \/ (clock + s1 + s2) - timeout_start > TIMEOUT_MS)
             /\ long_wait' = (long_wait
                                \/ (clock + s1 + s2) - timeout_start > TIMEOUT_MS)
             /\ UNCHANGED << pulse_end, timeout_start, pulse_duration >>
        ELSE \E s0 \in steps :
             /\ long_wait' = (long_wait
                                \/ (clock + s0) - timeout_start > TIMEOUT_MS)
             /\ timeout_start' = clock + s0 + s1
             /\ clock' = clock + s0 + s1
             /\ sensor_pc' = "wait_low"
             /\ UNCHANGED << pulse_start, pulse_end, pulse_duration,
                             timeout_edge, late_poll >>
    /\ clock' <= MaxClock
    /\ UNCHANGED distance
    /\ UNCHANGED loop_vars

\* Lines 73-80: one test of the second while condition and, when the echo is
\* still high, one pass through the loop body; when it is low, lines 79-80.
poll_low(steps) ==
    /\ sensor_pc = "wait_low"
    /\ \E level \in EchoLevels, s1 \in steps, s2 \in steps :
        IF level = 1
        THEN /\ pulse_end' = clock + s1
             /\ clock' = clock + s1 + s2
             /\ IF timed_out(clock + s1 + s2, timeout_start)
                THEN /\ sensor_pc' = "returned"
                     /\ timeout_edge' = "falling"
                ELSE /\ sensor_pc' = "wait_low"
                     /\ timeout_edge' = timeout_edge
             /\ late_poll' = (late_poll
                                \/ (clock + s1 + s2) - timeout_start > TIMEOUT_MS)
             /\ long_wait' = (long_wait
                                \/ (clock + s1 + s2) - timeout_start > TIMEOUT_MS)
             /\ UNCHANGED << pulse_start, timeout_start, pulse_duration >>
        ELSE \E s0 \in steps :
             /\ long_wait' = (long_wait
                                \/ (clock + s0) - timeout_start > TIMEOUT_MS)
             /\ clock' = clock + s0
             /\ pulse_duration' = Some(pulse_end - pulse_start)
             /\ sensor_pc' = "returned"
             /\ UNCHANGED << pulse_start, pulse_end, timeout_start,
                             timeout_edge, late_poll >>
    /\ clock' <= MaxClock
    /\ UNCHANGED distance
    /\ UNCHANGED loop_vars

\* distance_cm, lines 89-102, on the result of _send_pulse_and_wait.
DistanceCm ==
    /\ sensor_pc = "returned"
    /\ distance' = Some(distance_cm(pulse_duration))
    /\ sensor_pc' = "done"
    /\ UNCHANGED << clock, pulse_start, pulse_end, timeout_start,
                    pulse_duration, timeout_edge, long_wait, late_poll >>
    /\ UNCHANGED loop_vars

SendPulse == send_pulse(ClockSteps)
PollHigh == poll_high(ClockSteps)
PollLow == poll_low(ClockSteps)

NextSensor == SendPulse \/ PollHigh \/ PollLow \/ DistanceCm

\* The state in which the sensor is called: that of the main loop's start,
\* with the audio backend (which the sensor does not touch) initialised.
InitSensorCall == Init /\ audio_available = TRUE

\* One call of sensor.distance_cm().
SpecSensor == InitSensorCall /\ [][NextSensor]_vars

\* The same call on a clock read in steps of LongStep, in a process that
\* keeps running while the wall clock keeps advancing: every statement is
\* eventually executed, and a loop that goes on polling eventually polls at
\* a later time.
CoarseSteps == {0, LongStep}

SendPulseCoarse == send_pulse(CoarseSteps)
PollHighCoarse == poll_high(CoarseSteps)
PollLowCoarse == poll_low(CoarseSteps)

NextSensorLive ==
    SendPulseCoarse \/ PollHighCoarse \/ PollLowCoarse \/ DistanceCm

SpecSensorLive ==
    /\ InitSensorCall
    /\ [][NextSensorLive]_vars
    /\ WF_vars(SendPulseCoarse)
    /\ WF_vars(PollHighCoarse /\ clock' > clock)
    /\ WF_vars(PollLowCoarse /\ clock' > clock)
    /\ WF_vars(DistanceCm)

\* ------------------------------------------------------------ properties
Threshold == THRESHOLD_CM * UnitsPerCm

\* C1: play_random_song() is called only in an iteration whose filtered
\* distance is below 100 cm and that belongs to an unbroken run of such
\* iterations that began more than 0.5 s before it.
C1_PlayOnlyAfterSustainedPresence ==
    play_calls > 0 =>
        /\ filtered_distance < Threshold
        /\ run_start # None
        /\ now - Val(run_start) > SUSTAIN_MS

\* A song is started 0.6 s after the run began (six 100 ms iterations later).
C1_Witness ==
    /\ play_calls = 1
    /\ run_start # None
    /\ now - Val(run_start) = SUSTAIN_MS + SLEEP_MS

\* C2: within one unbroken run of iterations below 100 cm,
\* play_random_song() is called at most once.
C2_AtMostOnePlayPerRun == plays_in_run <= 1

\* The run goes on for 0.5 s and more after its song was started.
C2_Witness ==
    /\ pc = "loop"
    /\ filtered_distance < Threshold
    /\ run_start # None
    /\ now - Val(run_start) >= 2 * SUSTAIN_MS
    /\ plays_in_run = 1
    /\ play_calls = 0

\* C3: stop_music() is called only in an iteration that leaves Present;
\* never in one that began in Idle or in Pending.
C3_StopOnlyOnLeavingPresent == stop_calls > 0 => prev_state = "Present"

\* C4: an iteration that begins in Present and has a filtered distance of
\* 100 cm or more calls stop_music() exactly once and ends in Idle with
\* need_rearm reset.
C4_LeavingPresentStops ==
    (ticks > 0 /\ prev_state = "Present" /\ filtered_distance >= Threshold) =>
        /\ stop_calls = 1
        /\ play_calls = 0
        /\ ~person_detected
        /\ ~need_rearm

\* The person leaves after a song was started.
C4_Witness ==
    /\ prev_state = "Present"
    /\ filtered_distance >= Threshold
    /\ stop_calls = 1
    /\ played_before

\* C5: after a run with a song has ended, a new run that has lasted more
\* than 0.5 s holds exactly one call of play_random_song().
C5_PlayAgainAfterLeaving ==
    (/\ played_before
     /\ filtered_distance < Threshold
     /\ run_start # None
     /\ now - Val(run_start) > SUSTAIN_MS) => plays_in_run = 1

\* The second run's song is started.
C5_Witness ==
    /\ played_before
    /\ play_calls = 1
    /\ plays_in_run = 1
    /\ need_rearm

\* C6: in a run of iterations below 100 cm that began at t0, the song has
\* been started (once) at exactly those iterations whose time is more than
\* 0.5 s after t0: it starts in the first such iteration, whatever the
\* spacing of the iterations.
C6_PlayOnFirstTickPastSustain ==
    (filtered_distance < Threshold /\ run_start # None) =>
        plays_in_run = (IF now - Val(run_start) > SUSTAIN_MS THEN 1 ELSE 0)

\* Ten samples 0.1 s apart, all below 100 cm: one song.
C6_Witness ==
    /\ ticks = 10
    /\ run_start = Some(SLEEP_MS)
    /\ now = 10 * SLEEP_MS
    /\ filtered_distance < Threshold
    /\ plays_in_run = 1

\* C7: nothing but a KeyboardInterrupt ends the loop.
C7_LoopEndsOnlyOnCancel == pc # "loop" => pc = "exited"

\* C8: once the loop has ended, on whatever path, GPIO.cleanup() and
\* pygame.mixer.quit() have run.
C8_CleanupOnEveryExit == pc # "loop" => (gpio_cleaned /\ mixer_quit)

C11_LongWaitReturnsTimeout ==
    (sensor_pc \in {"returned", "done"} /\ long_wait) => pulse_duration = None

\* C11, amended: whenever a loop body, run because the poll found the echo
\* line unchanged, reads an elapsed time above timeout_sec, the measurement
\* returns None there and then.
C11_LatePollReturnsTimeout ==
    late_poll =>
        /\ sensor_pc \in {"returned", "done"}
        /\ timeout_edge # "none"
        /\ pulse_duration = None

\* The echo line stays low for more than 30 ms.
C11_Witness ==
    /\ sensor_pc = "done"
    /\ late_poll
    /\ timeout_edge = "rising"
    /\ pulse_duration = None

\* C15: a duration returned by _send_pulse_and_wait is never negative.
C15_DurationNotNegative ==
    pulse_duration # None => Val(pulse_duration) >= 0

\* C16: once the pulse is sent, _send_pulse_and_wait returns, whatever the
\* echo line does.
C16_PulseMeasurementReturns ==
    (sensor_pc \in {"wait_high", "wait_low"}) ~> (sensor_pc \in {"returned", "done"})

\* The first loop is left by its timeout.
C16_Witness ==
    /\ sensor_pc = "returned"
    /\ timeout_edge = "rising"
    /\ clock - timeout_start > TIMEOUT_MS


\* C12: whenever the filter computation fails, in whatever way, the
\* filtered distance of that iteration is the mean of the window.
C12_FallbackIsWindowMean ==
    filter_fault # "none" => filtered_distance = mean(history)

\* The 30 initial entries of the history.
HistoryFill == [i \in 1..HISTORY_LEN |-> HISTORY_FILL_CM * UnitsPerCm]

\* C13 as claimed: after k pushes the window holds exactly the last
\* min(k, 30) pushed readings (one entry after the first push, growing to
\* 30 entries).
C13_WindowIsLastPushes ==
    LET k == Len(pushed)
    IN  k > 0 =>
          history = SubSeq(pushed,
                           (IF k > HISTORY_LEN THEN k - HISTORY_LEN + 1 ELSE 1), k)

\* C13, amended: the window always holds 30 entries, the last min(k, 30)
\* pushed readings in arrival order behind 30 - min(k, 30) initial entries
\* of 200.0 cm; every push evicts the oldest entry.
C13_WindowIsFillThenPushes ==
    LET k == Len(pushed)
    IN  /\ Len(history) = HISTORY_LEN
        /\ history = SubSeq(HistoryFill \o pushed, k + 1, k + HISTORY_LEN)

\* More than 30 readings were pushed: the initial entries and the first
\* reading are gone, an echo among the readings is still held.
C13_Witness ==
    /\ Len(pushed) > HISTORY_LEN
    /\ history = SubSeq(pushed, Len(pushed) - HISTORY_LEN + 1, Len(pushed))
    /\ \E i \in 1..HISTORY_LEN : history[i] < MAX_RANGE_CM * UnitsPerCm

\* C14: without an audio backend no pygame.mixer.music call is made and
\* nothing is raised by play_random_song() or stop_music(); the detector
\* goes on as usual (need_rearm is set after the call).
C14_NoAudioNoPlayback ==
    ~audio_available =>
        /\ mixer_ops = 0
        /\ ~music_busy
        /\ pc # "crashed"
        /\ (play_calls > 0 => need_rearm)

\* play_random_song() is called without an audio backend.
C14_Witness ==
    /\ ~audio_available
    /\ play_calls = 1
    /\ mixer_ops = 0
    /\ need_rearm
    /\ pc = "loop"

\* C17: need_rearm is set only while person_detected is set, and it is not
\* set in the first iteration of a run below 100 cm.
C17_RearmOnlyWhileDetected ==
    /\ need_rearm => person_detected
    /\ (ticks > 0 /\ run_start = Some(now)) => ~need_rearm

\* A new run begins after one in which a song was started.
C17_Witness ==
    /\ played_before
    /\ run_start = Some(now)
    /\ person_detected
    /\ ~need_rearm

\* C18: while person_detected is set, detection_start holds a time that is
\* not later than the current time.
C18_DetectionStartSet ==
    person_detected =>
        /\ detection_start # None
        /\ Val(detection_start) <= now

\* The elapsed time of line 201 is computed and exceeds 0.5 s.
C18_Witness ==
    /\ person_detected
    /\ detection_start # None
    /\ now - Val(detection_start) > SUSTAIN_MS
    /\ prev_state = "Pending"

=============================================================================
